---- MODULE Spec2Model ----
(***************************************************************************)
(* A model of sparse_set<Type, Size> (src/sparse_set.hpp).                 *)
(*                                                                         *)
(* The container's members are the variables _size, _sparse and _dense.    *)
(* A dense slot is its sparseIndex field plus the raw bytes `data`; the     *)
(* bytes are modelled by the value_type object that lives in them: <<v>>    *)
(* when they hold a constructed value v, <<>> when they hold none (never    *)
(* constructed, destructed, or relocated away by memmove).                  *)
(*                                                                         *)
(* Each public member function is one action.  The function bodies are      *)
(* operators on a record s = [size, sparse, dense, faults] that return the  *)
(* record after the body ran, together with the way the body ended          *)
(* (returned, or threw std::out_of_range, or let the value constructor's    *)
(* exception escape).  The noexcept specifications of the member functions  *)
(* turn an escaping exception into std::terminate.                          *)
(***************************************************************************)
EXTENDS Naturals, FiniteSets, Sequences, TLC

\* The template argument Size (the test instantiates 65536).
Size == 2
\* The number of distinguishable values of value_type.
NumValues == 2

VARIABLES
    _size,                 \* size_type _size
    _sparse,               \* std::array<size_type, Size> _sparse
    _dense,                \* std::array<storage, Size> _dense
    phase,                 \* "alive", "destroyed" (after ~sparse_set), "terminated"
    call,                  \* the member function called last, with its arguments and
                           \* the _sparse entry its index had when it was called
    status,                \* how that call ended
    ret,                   \* what it returned: <<>> (nothing) or <<value>>
    faults,                \* the object-lifetime violations that call committed
    abstract               \* history: index -> the value last inserted and not erased since

vars == <<_size, _sparse, _dense, phase, call, status, ret, faults, abstract>>

Values == 1 .. NumValues
\* Positions of both arrays.
Positions == 0 .. Size - 1
\* Arguments a caller may pass as a_Index: every valid index and two invalid ones.
Indexes == 0 .. Size + 1

max_size == Size

\* The content of storage::data: a living value_type object, or none.
NoValue == <<>>
Live(v) == <<v>>
\* std::is_nothrow_destructible_v<value_type>: a destructor is noexcept unless it is
\* declared otherwise, as that of the test's Transform is.
nothrow_destructible == TRUE
\* storage::sparseIndex before its first assignment: an indeterminate value.
Indeterminate == Size + 1

\* std::array<_, Size>::at(pos) returns when pos < Size and throws std::out_of_range otherwise.
array_at_ok(pos) == pos < Size

size(s) == s.size

empty(s) == s.size = 0

full(s) == s.size = max_size

\* contains(a_Index) for an index _sparse.at accepts.
contains(s, a_Index) == s.sparse[a_Index] /= max_size

\* std::destroy_at((value_type*)_dense[d].data)
destroy_at(s, d) ==
    [s EXCEPT !.dense[d].data = NoValue,
              !.faults = IF s.dense[d].data /= NoValue THEN @
                         ELSE @ \cup {"destroy_nonlive"}]

\* new(_dense[d].data) value_type(args...), the constructor returning.
construct_at(s, d, v) ==
    [s EXCEPT !.dense[d].data = Live(v),
              !.faults = IF s.dense[d].data /= NoValue THEN @ \cup {"overwrite_live"}
                         ELSE @]

\* std::memmove(_dense[dst].data, _dense[src].data, sizeof(value_type)): the bytes of
\* src now sit in dst, so a value that lived in src lives in dst and no longer in src.
memmove(s, dst, src) ==
    IF dst = src THEN s
    ELSE [s EXCEPT !.dense[dst].data = s.dense[src].data,
                   !.dense[src].data = NoValue,
                   !.faults = IF s.dense[dst].data /= NoValue
                              THEN @ \cup {"overwrite_live"} ELSE @]

\* How a function body ends: it returns, or an exception leaves it.  `from` is the
\* expression that threw: "_sparse.at", "_dense.at" (both std::out_of_range) or
\* "constructor" (whatever value_type's constructor throws).
Returned(s) == [s |-> s, how |-> "returned", from |-> ""]
Threw(s, from) == [s |-> s, how |-> "threw", from |-> from]

\* The replace branch of insert.
insert_replace(s, a_Index, v, ctor_throws) ==
    LET d == s.sparse[a_Index]
        destroyed == destroy_at(s, d)
    IN  IF ctor_throws THEN Threw(destroyed, "constructor")
        ELSE Returned(construct_at(destroyed, d, v))

\* The push-back branch with _size++ left out.
insert_push_back_no_increment(s, a_Index, v, ctor_throws) ==
    LET s1 == [s EXCEPT !.sparse[a_Index] = s.size]
    IN  IF ~array_at_ok(s1.size) THEN Threw(s1, "_dense.at")
        ELSE LET d == s1.size
                 s2 == [s1 EXCEPT !.dense[d].sparseIndex = a_Index]
             IN  IF ctor_throws THEN Threw(s2, "constructor")
                 ELSE Returned(construct_at(s2, d, v))

\* The push-back branch of insert.
insert_push_back(s, a_Index, v, ctor_throws) ==
    LET s1 == [s EXCEPT !.sparse[a_Index] = s.size]
    IN  IF ~array_at_ok(s1.size) THEN Threw(s1, "_dense.at")
        ELSE LET d == s1.size
                 s2 == [s1 EXCEPT !.dense[d].sparseIndex = a_Index, !.size = @ + 1]
             IN  IF ctor_throws THEN Threw(s2, "constructor")
                 ELSE Returned(construct_at(s2, d, v))

\* insert with the capacity tested before the index is looked up.
insert_capacity_first(s, a_Index, v, ctor_throws) ==
    IF ~array_at_ok(a_Index) THEN Threw(s, "_sparse.at")
    ELSE IF ~array_at_ok(s.size) THEN Threw(s, "_dense.at")
    ELSE IF contains(s, a_Index) THEN insert_replace(s, a_Index, v, ctor_throws)
    ELSE insert_push_back(s, a_Index, v, ctor_throws)

\* insert without its replace branch.
insert_always_push_back(s, a_Index, v, ctor_throws) ==
    IF ~array_at_ok(a_Index) THEN Threw(s, "_sparse.at")
    ELSE insert_push_back(s, a_Index, v, ctor_throws)

\* The body of insert(a_Index, args...).
insert(s, a_Index, v, ctor_throws) ==
    IF ~array_at_ok(a_Index) THEN Threw(s, "_sparse.at")
    ELSE IF contains(s, a_Index) THEN insert_replace(s, a_Index, v, ctor_throws)
    ELSE insert_push_back(s, a_Index, v, ctor_throws)

\* erase's swap of the two sparseIndex fields left out.
swap_sparseIndex_forgotten(s, last, curr) == s

\* std::swap(lastDense.sparseIndex, currDense.sparseIndex).
swap_sparseIndex(s, last, curr) ==
    [s EXCEPT !.dense[last].sparseIndex = s.dense[curr].sparseIndex,
              !.dense[curr].sparseIndex = s.dense[last].sparseIndex]

\* erase's swap of the two _sparse entries left out.
swap_sparse_forgotten(s, lastIndex, a_Index) == s

\* std::swap(_sparse[lastIndex], _sparse[a_Index]); an indeterminate lastIndex
\* addresses no entry of _sparse.
swap_sparse(s, lastIndex, a_Index) ==
    IF lastIndex \notin Positions
    THEN [s EXCEPT !.faults = @ \cup {"indeterminate_index"}]
    ELSE [s EXCEPT !.sparse[lastIndex] = s.sparse[a_Index],
                   !.sparse[a_Index] = s.sparse[lastIndex]]

\* erase after its guard with the final _sparse[a_Index] = max_size() left out.
erase_present_sentinel_forgotten(s, a_Index) ==
    LET s1 == [s EXCEPT !.size = @ - 1]
        curr == s1.sparse[a_Index]
        last == s1.size
        lastIndex == s1.dense[last].sparseIndex
        s2 == destroy_at(s1, curr)
        s3 == memmove(s2, curr, last)
        s4 == swap_sparseIndex(s3, last, curr)
    IN  swap_sparse(s4, lastIndex, a_Index)

\* erase after its guard: a_Index is in range and contained.
erase_present(s, a_Index) ==
    LET s1 == [s EXCEPT !.size = @ - 1]
        curr == s1.sparse[a_Index]
        last == s1.size
        lastIndex == s1.dense[last].sparseIndex
        s2 == destroy_at(s1, curr)
        s3 == memmove(s2, curr, last)
        s4 == swap_sparseIndex(s3, last, curr)
        s5 == swap_sparse(s4, lastIndex, a_Index)
    IN  [s5 EXCEPT !.sparse[a_Index] = max_size]

\* erase with contains(a_Index) evaluated before empty().
erase_contains_first(s, a_Index) ==
    IF ~array_at_ok(a_Index) THEN Threw(s, "_sparse.at")
    ELSE IF ~contains(s, a_Index) \/ empty(s) THEN Returned(s)
    ELSE Returned(erase_present(s, a_Index))

\* erase with _size decremented above its guard.
erase_decrement_first(s, a_Index) ==
    IF empty(s) THEN Returned(s)
    ELSE IF ~array_at_ok(a_Index) THEN Threw(s, "_sparse.at")
    ELSE IF ~contains(s, a_Index) THEN Returned([s EXCEPT !.size = @ - 1])
    ELSE Returned(erase_present(s, a_Index))

\* The body of erase(a_Index): empty() || !contains(a_Index) evaluates contains, and
\* with it _sparse.at(a_Index), only when the set is not empty.
erase(s, a_Index) ==
    IF empty(s) THEN Returned(s)
    ELSE IF ~array_at_ok(a_Index) THEN Threw(s, "_sparse.at")
    ELSE IF ~contains(s, a_Index) THEN Returned(s)
    ELSE Returned(erase_present(s, a_Index))

\* The loop of clear() from the iteration with the given index on.
RECURSIVE clear_from(_, _)
clear_from(s, index) ==
    IF empty(s) THEN Returned(s)
    ELSE LET r == erase(s, index)
         IN  IF r.how /= "returned" THEN r ELSE clear_from(r.s, index + 1)

\* The loop of clear() bounded by index < size() instead of !empty().
RECURSIVE clear_while_below_size(_, _)
clear_while_below_size(s, index) ==
    IF ~(index < size(s)) THEN Returned(s)
    ELSE LET r == erase(s, index)
         IN  IF r.how /= "returned" THEN r ELSE clear_while_below_size(r.s, index + 1)

\* clear() with that loop.
clear_below_size(s) == clear_while_below_size(s, 0)

\* clear() with its loop started at index 1.
clear_from_one(s) == clear_from(s, 1)

\* The number of erase calls the loop of clear() makes from index on, up to the one
\* that throws if one does.
RECURSIVE clear_erase_calls(_, _)
clear_erase_calls(s, index) ==
    IF empty(s) THEN 0
    ELSE LET r == erase(s, index)
         IN  IF r.how /= "returned" THEN 1 ELSE 1 + clear_erase_calls(r.s, index + 1)

\* The body of clear().
clear(s) == clear_from(s, 0)

\* at with the unchecked subscript of operator[] on _dense.
at_dense_unchecked(s, a_Index) ==
    IF ~array_at_ok(a_Index) THEN Threw(s, "_sparse.at") ELSE Returned(s)

\* The body of at(a_Index): _dense.at(_sparse.at(a_Index)).
at(s, a_Index) ==
    IF ~array_at_ok(a_Index) THEN Threw(s, "_sparse.at")
    ELSE IF ~array_at_ok(s.sparse[a_Index]) THEN Threw(s, "_dense.at")
    ELSE Returned(s)

\* What _sparse holds for a_Index when a call is made; max_size for an index outside
\* _sparse as for an absent one.
entry(s, a_Index) == IF a_Index \in Positions THEN s.sparse[a_Index] ELSE max_size

\* The container as the record the function bodies work on.
Self == [size |-> _size, sparse |-> _sparse, dense |-> _dense, faults |-> {}]

\* The state the constructor leaves: _size{0}, _sparse.fill(max_size()), _dense untouched.
Init ==
    /\ _size = 0
    /\ _sparse = [i \in Positions |-> max_size]
    /\ _dense = [d \in Positions |-> [sparseIndex |-> Indeterminate, data |-> NoValue]]
    /\ phase = "alive"
    /\ call = [op |-> "sparse_set", index |-> 0, value |-> 0, entry |-> max_size]
    /\ status = [how |-> "returned", from |-> ""]
    /\ ret = <<>>
    /\ faults = {}
    /\ abstract = {}

\* The end of a call whose body ended as r: the members hold what the body wrote; an
\* exception that leaves a noexcept function ends the program (std::terminate).
Finish(r, is_noexcept, after) ==
    /\ _size' = r.s.size
    /\ _sparse' = r.s.sparse
    /\ _dense' = r.s.dense
    /\ faults' = r.s.faults
    /\ status' = IF r.how = "threw" /\ is_noexcept
                 THEN [how |-> "terminated", from |-> r.from]
                 ELSE [how |-> r.how, from |-> r.from]
    /\ phase' = IF status'.how = "terminated" THEN "terminated" ELSE after

\* insert(a_Index, args...).  The arguments select a constructor of value_type that is
\* noexcept or is not; only one that is not may throw.  insert is
\* noexcept(is_nothrow_constructible_v && is_nothrow_destructible_v).
Insert(a_Index, v, nothrow_constructible, ctor_throws) ==
    /\ phase = "alive"
    /\ nothrow_constructible => ~ctor_throws
    /\ LET r == insert(Self, a_Index, v, ctor_throws)
       IN  /\ Finish(r, nothrow_constructible /\ nothrow_destructible, "alive")
           /\ abstract' = IF r.how = "returned"
                          THEN {p \in abstract : p[1] /= a_Index} \cup {<<a_Index, v>>}
                          ELSE abstract
           /\ ret' = IF r.how = "returned" THEN <<v>> ELSE <<>>
    /\ call' = [op |-> "insert", index |-> a_Index, value |-> v, entry |-> entry(Self, a_Index)]

\* erase(a_Index), noexcept(is_nothrow_destructible_v).
Erase(a_Index) ==
    /\ phase = "alive"
    /\ LET r == erase(Self, a_Index)
       IN  /\ Finish(r, nothrow_destructible, "alive")
           /\ abstract' = IF r.how = "returned"
                          THEN {p \in abstract : p[1] /= a_Index}
                          ELSE abstract
    /\ call' = [op |-> "erase", index |-> a_Index, value |-> 0, entry |-> entry(Self, a_Index)]
    /\ ret' = <<>>

\* clear(), noexcept when erase is.
Clear ==
    /\ phase = "alive"
    /\ LET r == clear(Self)
       IN  /\ Finish(r, nothrow_destructible, "alive")
           /\ abstract' = IF r.how = "returned" THEN {} ELSE abstract
    /\ call' = [op |-> "clear", index |-> 0, value |-> 0, entry |-> max_size]
    /\ ret' = <<>>

\* ~sparse_set(), noexcept when clear is.
Destructor ==
    /\ phase = "alive"
    /\ LET r == clear(Self)
       IN  /\ Finish(r, nothrow_destructible, "destroyed")
           /\ abstract' = IF r.how = "returned" THEN {} ELSE abstract
    /\ call' = [op |-> "~sparse_set", index |-> 0, value |-> 0, entry |-> max_size]
    /\ ret' = <<>>

\* at(a_Index), the caller reading the value through the reference it returns; the
\* bytes of a slot that holds no value, or of no slot of _dense at all, read as any
\* value.
At(a_Index, read) ==
    /\ phase = "alive"
    /\ LET r == at(Self, a_Index)
           inside == r.how = "returned" /\ _sparse[a_Index] \in Positions
           data == IF inside THEN _dense[_sparse[a_Index]].data ELSE NoValue
           unread == r.how = "returned" /\ data = NoValue
           fault == IF inside THEN "read_nonlive" ELSE "read_out_of_bounds"
       IN  /\ Finish(IF unread THEN [r EXCEPT !.s.faults = @ \cup {fault}] ELSE r,
                     FALSE, "alive")
           /\ ret' = IF r.how /= "returned" THEN <<>>
                     ELSE IF unread THEN <<read>> ELSE data
    /\ call' = [op |-> "at", index |-> a_Index, value |-> 0, entry |-> entry(Self, a_Index)]
    /\ UNCHANGED abstract

\* contains(a_Index)
Contains(a_Index) ==
    /\ phase = "alive"
    /\ LET r == IF array_at_ok(a_Index) THEN Returned(Self) ELSE Threw(Self, "_sparse.at")
       IN  /\ Finish(r, FALSE, "alive")
           /\ ret' = IF r.how = "returned" THEN <<contains(Self, a_Index)>> ELSE <<>>
    /\ call' = [op |-> "contains", index |-> a_Index, value |-> 0, entry |-> entry(Self, a_Index)]
    /\ UNCHANGED abstract

\* The calls that change the container.
Next ==
    \/ \E a_Index \in Indexes, v \in Values, nothrow_constructible, ctor_throws \in BOOLEAN :
           Insert(a_Index, v, nothrow_constructible, ctor_throws)
    \/ \E a_Index \in Indexes : Erase(a_Index)
    \/ Clear
    \/ Destructor

Spec == Init /\ [][Next]_vars

\* The same with the calls that only look at it.
NextAccess ==
    \/ Next
    \/ \E a_Index \in Indexes, read \in Values : At(a_Index, read)
    \/ \E a_Index \in Indexes : Contains(a_Index)

SpecAccess == Init /\ [][NextAccess]_vars

----------------------------------------------------------------------------
\* What the claims speak of.

\* The three members.
container == <<_size, _sparse, _dense>>
\* The indices the history says are present.
Inserted == {p[1] : p \in abstract}
\* The dense positions below _size.
Occupied == {d \in Positions : d < _size}

\* C1 (I1, bijection): in every state, for every index i of [0, Size), _sparse[i] is
\* not the sentinel max_size exactly when some dense position below _size has i as its
\* sparseIndex; that position is then the only one and is _sparse[i].
I1_Bijection ==
    /\ \A d \in Occupied : _dense[d].sparseIndex \in Positions
    /\ \A i \in Positions :
          LET owned == {d \in Occupied : _dense[d].sparseIndex = i}
          IN  /\ _sparse[i] /= max_size <=> owned /= {}
              /\ _sparse[i] /= max_size => owned = {_sparse[i]}

\* C1's case: an erase has left one element, the value of index 1, at dense position 0
\* with the erased index 0 swapped into the tail slot.
I1_AfterSwapAndPop ==
    /\ call.op = "erase"
    /\ call.index = 0
    /\ _size = 1
    /\ _sparse[1] = 0
    /\ _dense[0].data /= NoValue
    /\ _dense[1].sparseIndex = 0

\* C2 (P1): whenever the program runs, contains(i) holds for an index i of [0, Size)
\* exactly when i was inserted and not erased or cleared since.
P1_ContainsIffInserted ==
    phase = "alive" => \A i \in Positions : contains(Self, i) <=> i \in Inserted

\* C3 (P3): at(i) called on an index that contains(i) reports present returns the
\* value inserted last at i.
P3_AtReturnsLastInserted ==
    (/\ call.op = "at"
     /\ call.index \in Positions
     /\ contains(Self, call.index))
        => /\ status.how = "returned"
           /\ <<call.index, ret[1]>> \in abstract

\* C4: erase(i) with i >= Size returns without an error and changes no member, in
\* every state.
EraseOutOfRangeIsNoop ==
    [][(call'.op = "erase" /\ call'.index >= Size)
          => (status'.how = "returned" /\ UNCHANGED container)]_vars

\* C5: when the value constructor throws in insert(i, ...) for an absent index i in
\* range of a set that is not full, _size is not incremented and _sparse[i] still is
\* the sentinel.
InsertFailureLeavesNoPartialState ==
    [][(/\ call'.op = "insert"
        /\ status'.from = "constructor"
        /\ call'.index \in Positions
        /\ ~contains(Self, call'.index)
        /\ ~full(Self))
          => (_size' = _size /\ _sparse'[call'.index] = max_size)]_vars

\* An insert of a new index whose constructor does not throw, into a set that is not
\* full, returns and adds one element.
InsertNewSucceeds ==
    (/\ call'.op = "insert"
     /\ call'.index \in Positions
     /\ ~contains(Self, call'.index)
     /\ status'.from /= "constructor")
        => /\ status'.how = "returned"
           /\ _size' = _size + 1
           /\ _size' = Size => full(Self')

\* An insert into a full set of an index that is not present fails the named check
\* and changes no member.
InsertIntoFullFailsAt(check) ==
    (/\ call'.op = "insert"
     /\ full(Self)
     /\ (call'.index \notin Positions \/ ~contains(Self, call'.index)))
        => /\ status'.how \in {"threw", "terminated"}
           /\ status'.from = check
           /\ UNCHANGED container

\* An insert of a present index fails no range or capacity check, full set or not, and
\* returns when the constructor does.
InsertPresentReplaces ==
    (/\ call'.op = "insert"
     /\ call'.index \in Positions
     /\ contains(Self, call'.index))
        => /\ status'.from \notin {"_sparse.at", "_dense.at"}
           /\ status'.from /= "constructor" => status'.how = "returned"

\* C6 as stated (P5): Size inserts of distinct indices succeed and fill the set; an
\* insert of one more distinct index then fails the capacity check _dense.at(_size)
\* (CapacityExceeded) and changes nothing; an insert of a present index still succeeds.
P5_CapacityExceeded ==
    [][/\ InsertNewSucceeds
       /\ InsertIntoFullFailsAt("_dense.at")
       /\ InsertPresentReplaces]_vars

\* C6 amended: the insert of one more distinct index fails the range check
\* _sparse.at(a_Index) (OutOfRange: the exception, or std::terminate where insert is
\* noexcept), never the capacity check; the rest as stated.
P5_FullSetRejectsByRange ==
    [][/\ InsertNewSucceeds
       /\ InsertIntoFullFailsAt("_sparse.at")
       /\ InsertPresentReplaces]_vars

\* C6's case: an insert into the full set has just failed.
P5_InsertIntoFullFailed ==
    /\ call.op = "insert"
    /\ full(Self)
    /\ status.how /= "returned"
    /\ status.from /= "constructor"

\* C7: no call destructs storage that holds no value or overwrites a value that was
\* not destructed, no dense slot at or above _size holds a value, and after the
\* destructor no value is left alive: every constructed value is destructed once.
EveryValueDestructedOnce ==
    /\ faults \cap {"destroy_nonlive", "overwrite_live"} = {}
    /\ \A d \in Positions \ Occupied : _dense[d].data = NoValue
    /\ phase = "destroyed" => \A d \in Positions : _dense[d].data = NoValue

\* C8 (P6): insert(i, v) on a present index i, its constructor not throwing, returns,
\* full set or not; afterwards at(i) refers to v; _size, _sparse, every sparseIndex
\* and every other slot's value are unchanged.
P6_ReplaceInPlace ==
    [][(/\ call'.op = "insert"
        /\ call'.index \in Positions
        /\ contains(Self, call'.index)
        /\ status'.from /= "constructor")
          => (/\ status'.how = "returned"
              /\ ret' = <<call'.value>>
              /\ at(Self', call'.index).how = "returned"
              /\ _dense'[_sparse'[call'.index]].data = <<call'.value>>
              /\ _size' = _size
              /\ _sparse' = _sparse
              /\ \A d \in Positions :
                    /\ _dense'[d].sparseIndex = _dense[d].sparseIndex
                    /\ d /= _sparse[call'.index] => _dense'[d].data = _dense[d].data)]_vars

\* C8's case: the set is full and the insert that just returned was of the index at
\* dense position 0, which a push-back never writes in a full set of two or more.
P6_ReplacedInFullSet ==
    /\ call.op = "insert"
    /\ status.how = "returned"
    /\ full(Self)
    /\ _size > 1
    /\ _dense[0].sparseIndex = call.index
    /\ _dense[0].data = <<call.value>>

\* C9 (P4): erase(i) on an index i in range that is absent returns without an error
\* and changes no member, so size(), every contains(j) and every at(j) stay as they
\* were; it touches no value.
P4_EraseAbsentIsNoop ==
    [][(/\ call'.op = "erase"
        /\ call'.index \in Positions
        /\ ~contains(Self, call'.index))
          => (/\ status'.how = "returned"
              /\ UNCHANGED container
              /\ faults' = {})]_vars

\* C9's case: the erase that just returned was of an index that was absent from a set
\* that was not empty: the slot at _size, where an erase leaves the index it removes,
\* holds another index.
P4_ErasedAbsentIndex ==
    /\ call.op = "erase"
    /\ call.index \in Positions
    /\ status.how = "returned"
    /\ _size > 0
    /\ _size < Size
    /\ ~contains(Self, call.index)
    /\ _dense[_size].sparseIndex /= call.index

\* C10: contains(i), at(i) and insert(i, ...) with i >= Size end with the exception
\* std::out_of_range of _sparse.at reaching the caller, and change no member.
OutOfRangeIsSurfaced ==
    [][(/\ call'.op \in {"contains", "at", "insert"}
        /\ call'.index >= Size)
          => (/\ status' = [how |-> "threw", from |-> "_sparse.at"]
              /\ UNCHANGED container)]_vars

\* C11: at(i) on an index i in range that is absent throws (std::out_of_range of
\* _dense.at, the sentinel being no position of _dense) and returns no reference; on a
\* present index it returns, _sparse[i] is below _size, and what is read is the value
\* the slot _dense[_sparse[i]] holds.  Neither changes a member.
AtChecksPresence ==
    [][(call'.op = "at" /\ call'.index \in Positions)
          => /\ UNCHANGED container
             /\ IF contains(Self, call'.index)
                THEN /\ status'.how = "returned"
                     /\ _sparse[call'.index] < _size
                     /\ LET data == _dense[_sparse[call'.index]].data
                        IN  data /= NoValue => ret' = data
                ELSE /\ status' = [how |-> "threw", from |-> "_dense.at"]
                     /\ ret' = <<>>]_vars

\* C11's case: at() of an absent index of a set that is not empty has thrown.
AtOfAbsentThrew ==
    /\ call.op = "at"
    /\ call.index \in Positions
    /\ status.from = "_dense.at"
    /\ _size > 0

\* The indices contains() reports present.
Present == {i \in Positions : contains(Self, i)}

\* C12: in every state 0 <= _size <= Size and size() is the number of indices that
\* contains() reports present; empty() holds exactly when there is none and full()
\* exactly when _size is Size.  An insert of an absent index that returns makes size()
\* one more, an erase of a present index that returns makes it one less.
SizeCountsPresent ==
    /\ [](/\ size(Self) \in 0 .. Size
          /\ size(Self) = Cardinality(Present)
          /\ empty(Self) <=> Present = {}
          /\ full(Self) <=> _size = Size)
    /\ [][(/\ call'.op \in {"insert", "erase"}
           /\ call'.index \in Positions
           /\ status'.how = "returned")
             => IF call'.op = "insert"
                THEN ~contains(Self, call'.index) => size(Self') = size(Self) + 1
                ELSE contains(Self, call'.index) => size(Self') = size(Self) - 1]_vars

\* C12's case: an erase has returned and left one of two elements.
SizeAfterInsertsAndErase ==
    /\ call.op = "erase"
    /\ status.how = "returned"
    /\ size(Self) = 1
    /\ Cardinality(Present) = 1
    /\ _dense[1].sparseIndex = call.index

\* C13: clear() returns and leaves what the constructor leaves: _size 0 and every
\* _sparse entry max_size, no slot of _dense holding a value; when every occupied slot
\* held a value no destructor ran on anything else, and on an empty set no member
\* changes.
ClearLeavesFreshSet ==
    [][call'.op = "clear"
         => /\ status'.how = "returned"
            /\ size(Self') = 0
            /\ \A i \in Positions : _sparse'[i] = max_size
            /\ \A d \in Positions : _dense'[d].data = NoValue
            /\ (\A d \in Occupied : _dense[d].data /= NoValue) => faults' = {}
            /\ empty(Self) => UNCHANGED container]_vars

\* C13's case: clear() has emptied a set that held two values.
ClearedTwoElements ==
    /\ call.op = "clear"
    /\ status.how = "returned"
    /\ size(Self) = 0
    /\ faults = {}
    /\ \A d \in 0 .. 1 : _dense[d].sparseIndex /= Indeterminate

\* For an erase step of a present index: the step ends with _size one less, the entry
\* of the erased index max_size, and no other entry of _sparse except that of owner o
\* and no slot of _dense except d and last changed.
EraseFrame(i, d, last, o) ==
    /\ status'.how = "returned"
    /\ size(Self') = size(Self) - 1
    /\ _sparse'[i] = max_size
    /\ \A j \in Positions \ {i, o} : _sparse'[j] = _sparse[j]
    /\ \A e \in Positions \ {d, last} : _dense'[e] = _dense[e]

\* The slot d holds after the step what slot last held before it, value and owner, and
\* the entry of that owner is d.
TailRelocatedTo(d, last, o) ==
    /\ _dense'[d].data = _dense[last].data
    /\ _dense'[d].sparseIndex = o
    /\ _sparse'[o] = d

EraseLastIsSelfMove ==
    [][(/\ call'.op = "erase"
        /\ call'.index \in Positions
        /\ contains(Self, call'.index)
        /\ _sparse[call'.index] = _size - 1)
         => LET i == call'.index
                d == _sparse[i]
            IN  /\ status'.how = "returned"
                /\ size(Self') = size(Self) - 1
                /\ _sparse'[i] = max_size
                /\ _dense'[d].data = NoValue
                /\ _dense'[d].sparseIndex = _dense[d].sparseIndex
                /\ _dense[d].data /= NoValue => faults' = {}
                /\ \A j \in Positions \ {i} : _sparse'[j] = _sparse[j]
                /\ \A e \in Positions : e < d => _dense'[e] = _dense[e]]_vars

\* C15's case: erase has removed the value at the last position and another one stays
\* below it.
ErasedTheTail ==
    /\ call.op = "erase"
    /\ status.how = "returned"
    /\ call.entry = size(Self)
    /\ size(Self) > 0
    /\ faults = {}
    /\ \A e \in Occupied : _dense[e].data /= NoValue

\* C16: when the value constructor throws in insert(i, ...) for a present index i,
\* every occupied slot that held a constructed value still holds one.
ReplaceFailureKeepsSlotsConstructed ==
    [][(/\ call'.op = "insert"
        /\ call'.index \in Positions
        /\ contains(Self, call'.index)
        /\ status'.from = "constructor")
         => \A d \in Occupied : _dense[d].data /= NoValue => _dense'[d].data /= NoValue]_vars

\* C17: from every reachable state clear() returns, leaving the set empty, after at
\* most Size calls of erase; no call of erase in its loop throws, which erase does
\* exactly when called for an index of Size or more on a set that is not empty.
ClearTerminates ==
    phase = "alive"
        => /\ clear(Self).how = "returned"
           /\ empty(clear(Self).s)
           /\ clear_erase_calls(Self, 0) <= Size

\* C17's case: only the last index is present, so the loop of clear() runs Size times.
ClearNeedsEveryIndex ==
    /\ phase = "alive"
    /\ Present = {Size - 1}
    /\ clear_erase_calls(Self, 0) = Size
    /\ clear(Self).how = "returned"

\* C18: on an empty set erase(i) returns for every index i, one of Size or more
\* included, without an exception and without changing a member: _size stays 0 and
\* every entry of _sparse stays max_size.
EraseOnEmptyReturns ==
    [][(call'.op = "erase" /\ empty(Self))
         => /\ status' = [how |-> "returned", from |-> ""]
            /\ UNCHANGED container
            /\ size(Self') = 0
            /\ \A i \in Positions : _sparse'[i] = max_size
            /\ faults' = {}]_vars

\* C18's case: erase of an index outside _sparse has returned on an empty set.
ErasedOutOfRangeOnEmpty ==
    /\ call.op = "erase"
    /\ call.index >= Size
    /\ status.how = "returned"
    /\ empty(Self)
    /\ phase = "alive"

\* C19: in every reachable state full() holds exactly when every index of _sparse is
\* present, and no insert has failed the check _dense.at(_size); an insert into a full
\* set either takes the replace branch, for a present index, or fails the range check
\* _sparse.at(a_Index), and an insert of an absent index in range finds _size < Size.
FullIffEveryIndexPresent ==
    /\ [](/\ full(Self) <=> \A i \in Positions : contains(Self, i)
          /\ call.op = "insert" => status.from /= "_dense.at")
    /\ [][call'.op = "insert"
            => /\ full(Self)
                  => \/ /\ call'.index \in Positions
                        /\ contains(Self, call'.index)
                        /\ status'.from \in {"", "constructor"}
                        /\ size(Self') = size(Self)
                     \/ /\ call'.index \notin Positions
                        /\ status'.from = "_sparse.at"
                        /\ UNCHANGED container
               /\ (call'.index \in Positions /\ ~contains(Self, call'.index))
                  => size(Self) < Size]_vars

\* C19's case: a push-back insert of the last absent index has made the set full.
FilledByLastAbsentIndex ==
    /\ call.op = "insert"
    /\ call.entry = max_size
    /\ status.how = "returned"
    /\ full(Self)
    /\ _dense[Size - 1].sparseIndex = call.index
    /\ \A i \in Positions : contains(Self, i)

\* The container after insert(i, v), its constructor returning, and then erase(i).
InsertThenErase(i, v) == erase(insert(Self, i, v, FALSE).s, i)

\* C20: in every reachable state that is not full, for every absent index i in range
\* and every value v, insert(i, v) followed at once by erase(i) both return and give
\* back the same _size, the same _sparse and, in every slot below _size, the same value
\* and owner; the one value constructed is the one value destructed.
InsertThenEraseRestores ==
    (phase = "alive" /\ ~full(Self))
        => \A i \in Positions \ Present : \A v \in Values :
              LET ins == insert(Self, i, v, FALSE)
                  r == InsertThenErase(i, v)
              IN  /\ ins.how = "returned"
                  /\ contains(ins.s, i)
                  /\ ins.s.dense[ins.s.sparse[i]].data = Live(v)
                  /\ r.how = "returned"
                  /\ r.s.size = _size
                  /\ r.s.sparse = _sparse
                  /\ \A d \in Occupied : r.s.dense[d] = _dense[d]
                  /\ r.s.dense[_size].data = NoValue
                  /\ r.s.faults = {}

\* C20's case: a set that holds one index after another was erased, with an absent
\* index to insert and erase again.
InsertThenEraseAfterErase ==
    /\ phase = "alive"
    /\ call.op = "erase"
    /\ call.entry < Size
    /\ size(Self) = 1
    /\ _dense[0].data /= NoValue
    /\ \E i \in Positions \ Present :
          /\ insert(Self, i, 1, FALSE).s.size = 2
          /\ InsertThenErase(i, 1).s.sparse = _sparse

====
